---- MODULE Spec2Model ----
(***************************************************************************)
(* Procurement tools of the predictive-maintenance agents:                 *)
(*   parse_parts_list, check_parts_stock, generate_procurement_order and   *)
(*   get_stock_summary (agents/tool-procurement/src/procurement_mcp.py),   *)
(* running against the procurement.parts_stock table.                      *)
(*                                                                         *)
(* Text is a sequence of one-character strings, so that the parser's       *)
(* strip / split / re.sub / re.match are computed character by character.  *)
(* Money is counted in cents (unit_cost is a two-decimal amount).          *)
(***************************************************************************)
EXTENDS Integers, Sequences, FiniteSets, TLC

VARIABLES
    store,          \* procurement.parts_stock: part_number -> row, or NoRecord
    pc,             \* "idle" | "parsed" | "loop" | "summary" | "returned"
    tool,           \* the handler that is running or has returned
    request_lines,  \* the lines the caller wrote, as structured line descriptions
    parts_text,     \* the parts_list argument, as characters
    parts_needed,   \* parse_parts_list's result
    queries,        \* the keys of the SELECTs issued by this invocation, in order
    stock_status,   \* check_parts_stock's list of assessments
    parts_to_order, \* generate_procurement_order's list of order lines
    total_cost,     \* generate_procurement_order's running total
    conn,           \* "none" | "open" | "closed": this invocation's connection
    opened,         \* connections opened by this invocation
    summary,        \* get_stock_summary's aggregate row
    error,          \* what raised inside the tool's try: "none" | "connect" |
                    \* "query" | "format"
    result,         \* the value returned to the caller
    service_parts,  \* maintenance.service_parts: rows of (equipment_id, part)
    ppc,            \* populate_procurement_table's position: "idle" |
                    \* "connected" | "generated" | "deleted" | "inserted" |
                    \* "committed" | "done" | "failed"; "ingested" once
                    \* a parts file is read into service_parts
    parts,          \* populate_procurement_table's list of fetched parts
    stock_data,     \* generate_stock_data's list of rows
    uncommitted,    \* procurement.parts_stock as the open transaction of
                    \* populate_procurement_table sees it: a list of rows
    wpc,            \* the training workflow's position: "idle" | "start" |
                    \* "preprocessed" | "smoothing" | "featured"
    Y_train_df,     \* input_data's training frame: rows (unique_id, ds, s_21)
    Y_test_df,      \* input_data's test frame
    artifacts,      \* the datasets logged with context.log_dataset, by key
    data,           \* create_smoothed_feature_by_group's input frame
    data_with_smoothed, \* its copy with the column s_21_smoothed
    unique_groups,  \* the groups its loop has still to smooth
    printed         \* the groups it printed a filter failure for

\* the locals of populate_procurement_table and the table it reads
popvars == <<service_parts, ppc, parts, stock_data, uncommitted>>

\* the frames and artifacts of the training workflow
mlvars == <<wpc, Y_train_df, Y_test_df, artifacts, data, data_with_smoothed,
            unique_groups, printed>>

\* no workflow runs
NoWorkflow ==
    /\ wpc = "idle"
    /\ Y_train_df = <<>>
    /\ Y_test_df = <<>>
    /\ artifacts = <<>>
    /\ data = <<>>
    /\ data_with_smoothed = <<>>
    /\ unique_groups = <<>>
    /\ printed = <<>>

\* the locals of a tool invocation
toolvars == <<pc, tool, request_lines, parts_text, parts_needed, queries,
              stock_status, parts_to_order, total_cost, conn, opened, summary,
              error, result>>

vars == <<store, pc, tool, request_lines, parts_text, parts_needed, queries,
          stock_status, parts_to_order, total_cost, conn, opened, summary, error,
          result, service_parts, ppc, parts, stock_data, uncommitted, wpc,
          Y_train_df, Y_test_df, artifacts, data, data_with_smoothed,
          unique_groups, printed>>

----------------------------------------------------------------------------
(* Characters *)

Upper == {"A","B","C","D","E","F","G","H","I","J","K","L","M",
          "N","O","P","Q","R","S","T","U","V","W","X","Y","Z"}
Lower == {"a","b","c","d","e","f","g","h","i","j","k","l","m",
          "n","o","p","q","r","s","t","u","v","w","x","y","z"}
Digits == {"0","1","2","3","4","5","6","7","8","9"}
\* what str.strip() removes and what \s matches
Whitespace == {" ", "\t", "\n"}
\* [A-Z] and [a-zA-Z] under re.IGNORECASE
Letters == Upper \cup Lower
\* [-\u2022*]; the bullet character U+2022 is written "U+2022"
Bullets == {"-", "U+2022", "*"}
\* [\.\)]
NumberEnds == {".", ")"}

DigitValue(c) ==
    CASE c = "0" -> 0 [] c = "1" -> 1 [] c = "2" -> 2 [] c = "3" -> 3
      [] c = "4" -> 4 [] c = "5" -> 5 [] c = "6" -> 6 [] c = "7" -> 7
      [] c = "8" -> 8 [] c = "9" -> 9

\* int(text) of a string of decimal digits
RECURSIVE ParseInt(_)
ParseInt(ds) ==
    IF ds = <<>> THEN 0
    ELSE 10 * ParseInt(SubSeq(ds, 1, Len(ds) - 1)) + DigitValue(ds[Len(ds)])

\* the first position >= i of s that holds no character of class C
\* (Len(s) + 1 when the run of C reaches the end): a greedy C*
SkipWhile(s, i, C) ==
    CHOOSE j \in i..(Len(s) + 1) :
        /\ \A k \in i..(j - 1) : s[k] \in C
        /\ (j = Len(s) + 1 \/ s[j] \notin C)

\* str.strip()
Strip(s) ==
    LET a == SkipWhile(s, 1, Whitespace)
        b == IF a > Len(s) THEN a - 1
             ELSE CHOOSE j \in a..Len(s) :
                      /\ s[j] \notin Whitespace
                      /\ \A k \in (j + 1)..Len(s) : s[k] \in Whitespace
    IN  SubSeq(s, a, b)

\* str.split('\n')
RECURSIVE SplitLines(_)
SplitLines(s) ==
    IF \A k \in 1..Len(s) : s[k] # "\n" THEN <<s>>
    ELSE LET n == CHOOSE j \in 1..Len(s) :
                      s[j] = "\n" /\ \A k \in 1..(j - 1) : s[k] # "\n"
         IN  <<SubSeq(s, 1, n - 1)>> \o SplitLines(SubSeq(s, n + 1, Len(s)))

\* re.sub(r'^[\s]*[-\u2022*]\s*', '', line)
RemoveBullet(line) ==
    LET a == SkipWhile(line, 1, Whitespace)
    IN  IF a <= Len(line) /\ line[a] \in Bullets
        THEN SubSeq(line, SkipWhile(line, a + 1, Whitespace), Len(line))
        ELSE line

\* the removal as it would be if only "1." were a numbered-list marker
RemoveNumbering_DotOnly(line) ==
    LET a == SkipWhile(line, 1, Whitespace)
        b == SkipWhile(line, a, Digits)
    IN  IF b > a /\ b <= Len(line) /\ line[b] = "."
        THEN SubSeq(line, SkipWhile(line, b + 1, Whitespace), Len(line))
        ELSE line

\* re.sub(r'^[\s]*\d+[\.\)]\s*', '', line)
RemoveNumbering(line) ==
    LET a == SkipWhile(line, 1, Whitespace)
        b == SkipWhile(line, a, Digits)
    IN  IF b > a /\ b <= Len(line) /\ line[b] \in NumberEnds
        THEN SubSeq(line, SkipWhile(line, b + 1, Whitespace), Len(line))
        ELSE line

NoMatch == [matched |-> FALSE]

\* the match as it would be without the closing $: text may follow
MatchPart_Unanchored(line, sep) ==
    LET n  == Len(line)
        l  == SkipWhile(line, 1, Letters)       \* end of [A-Z]+
        e  == l + 7                             \* end of -\d{3}-\d{2}
        s1 == SkipWhile(line, e, Whitespace)    \* the separator
        q  == SkipWhile(line, s1 + 1, Whitespace)
        d  == SkipWhile(line, q, Digits)        \* end of (\d+)
        w  == SkipWhile(line, d, Whitespace)
        u  == SkipWhile(line, w, Letters)       \* end of [a-zA-Z]+
    IN  IF /\ l > 1
           /\ e <= n
           /\ line[l] = "-"
           /\ \A k \in (l + 1)..(l + 3) : line[k] \in Digits
           /\ line[l + 4] = "-"
           /\ \A k \in (l + 5)..(l + 6) : line[k] \in Digits
           /\ s1 <= n
           /\ line[s1] = sep
           /\ d > q
        THEN [matched |-> TRUE,
              part_number |-> SubSeq(line, 1, e - 1),
              quantity |-> ParseInt(SubSeq(line, q, d - 1))]
        ELSE NoMatch

\* the match as it would be if the quantity word were not optional
MatchPart_UnitRequired(line, sep) ==
    LET n  == Len(line)
        l  == SkipWhile(line, 1, Letters)       \* end of [A-Z]+
        e  == l + 7                             \* end of -\d{3}-\d{2}
        s1 == SkipWhile(line, e, Whitespace)    \* the separator
        q  == SkipWhile(line, s1 + 1, Whitespace)
        d  == SkipWhile(line, q, Digits)        \* end of (\d+)
        w  == SkipWhile(line, d, Whitespace)
        u  == SkipWhile(line, w, Letters)       \* end of [a-zA-Z]+
    IN  IF /\ l > 1
           /\ e <= n
           /\ line[l] = "-"
           /\ \A k \in (l + 1)..(l + 3) : line[k] \in Digits
           /\ line[l + 4] = "-"
           /\ \A k \in (l + 5)..(l + 6) : line[k] \in Digits
           /\ s1 <= n
           /\ line[s1] = sep
           /\ d > q
           /\ u > w /\ u = n + 1
        THEN [matched |-> TRUE,
              part_number |-> SubSeq(line, 1, e - 1),
              quantity |-> ParseInt(SubSeq(line, q, d - 1))]
        ELSE NoMatch

\* re.match(r'^([A-Z]+-\d{3}-\d{2})\s*<sep>\s*(\d+)(?:\s*[a-zA-Z]+)?$', line,
\*          re.IGNORECASE), with group(1) and int(group(2)).
\* Adjacent pieces of the pattern accept disjoint characters, so the greedy
\* scan is the only way to match and no backtracking is lost.
MatchPart(line, sep) ==
    LET n  == Len(line)
        l  == SkipWhile(line, 1, Letters)       \* end of [A-Z]+
        e  == l + 7                             \* end of -\d{3}-\d{2}
        s1 == SkipWhile(line, e, Whitespace)    \* the separator
        q  == SkipWhile(line, s1 + 1, Whitespace)
        d  == SkipWhile(line, q, Digits)        \* end of (\d+)
        w  == SkipWhile(line, d, Whitespace)
        u  == SkipWhile(line, w, Letters)       \* end of [a-zA-Z]+
    IN  IF /\ l > 1
           /\ e <= n
           /\ line[l] = "-"
           /\ \A k \in (l + 1)..(l + 3) : line[k] \in Digits
           /\ line[l + 4] = "-"
           /\ \A k \in (l + 5)..(l + 6) : line[k] \in Digits
           /\ s1 <= n
           /\ line[s1] = sep
           /\ d > q
           /\ (d = n + 1 \/ (u > w /\ u = n + 1))
        THEN [matched |-> TRUE,
              part_number |-> SubSeq(line, 1, e - 1),
              quantity |-> ParseInt(SubSeq(line, q, d - 1))]
        ELSE NoMatch

\* the iteration as it would be without the test for ':' in the line
ParseLine_NoColonTest(raw) ==
    LET line0 == Strip(raw)
    IN  IF line0 = <<>>
        THEN <<>>
        ELSE LET line == Strip(RemoveNumbering(RemoveBullet(line0)))
                 ma == MatchPart(line, ":")
                 mb == MatchPart(line, "-")
             IN  IF ma.matched
                 THEN <<[part_number |-> ma.part_number, quantity |-> ma.quantity]>>
                 ELSE IF mb.matched
                 THEN <<[part_number |-> mb.part_number, quantity |-> mb.quantity]>>
                 ELSE <<>>

\* one iteration of the loop over lines: the pairs this line adds (none or one)
ParseLine(raw) ==
    LET line0 == Strip(raw)
    IN  IF line0 = <<>> \/ (\A k \in 1..Len(line0) : line0[k] # ":")
        THEN <<>>
        ELSE LET line == Strip(RemoveNumbering(RemoveBullet(line0)))
                 ma == MatchPart(line, ":")
                 mb == MatchPart(line, "-")
             IN  IF ma.matched
                 THEN <<[part_number |-> ma.part_number, quantity |-> ma.quantity]>>
                 ELSE IF mb.matched
                 THEN <<[part_number |-> mb.part_number, quantity |-> mb.quantity]>>
                 ELSE <<>>

RECURSIVE ParseLines_Merging(_)
\* parse_parts_list as it would be if a part already listed were skipped
ParseLines_Merging(lines) ==
    IF lines = <<>> THEN <<>>
    ELSE LET before == ParseLines_Merging(SubSeq(lines, 1, Len(lines) - 1))
             new == ParseLine(lines[Len(lines)])
         IN  IF new # <<>> /\ \E k \in 1..Len(before) :
                                 before[k].part_number = new[1].part_number
             THEN before
             ELSE before \o new

RECURSIVE ParseLines(_)
\* the loop over lines
ParseLines(lines) ==
    IF lines = <<>> THEN <<>>
    ELSE ParseLine(Head(lines)) \o ParseLines(Tail(lines))

parse_parts_list(text) == ParseLines(SplitLines(Strip(text)))

----------------------------------------------------------------------------
(* Inputs: the lines a caller writes.  A line is described by its pieces   *)
(* (list marker, part code, separator, quantity text, trailing word) and   *)
(* rendered to characters; the text is the lines joined by newlines.       *)

BEAR_003_01 == <<"B","E","A","R","-","0","0","3","-","0","1">>
SEAL_003_02 == <<"S","E","A","L","-","0","0","3","-","0","2">>
PUMP_001_01 == <<"P","U","M","P","-","0","0","1","-","0","1">>
bear_003_01 == <<"b","e","a","r","-","0","0","3","-","0","1">>
BEAR_03_01  == <<"B","E","A","R","-","0","3","-","0","1">>

ColonSep == <<":", " ">>
DashSep  == <<" ", "-", " ">>
UnitsWord == <<" ", "u","n","i","t","s">>

LineOf(marker, part, sep, qty, unit) ==
    [marker |-> marker, part |-> part, sep |-> sep, qty |-> qty, unit |-> unit]

RenderLine(d) == d.marker \o d.part \o d.sep \o d.qty \o d.unit

RECURSIVE RenderText(_)
RenderText(ls) ==
    IF ls = <<>> THEN <<>>
    ELSE IF Len(ls) = 1 THEN RenderLine(ls[1])
    ELSE RenderLine(ls[1]) \o <<"\n">> \o RenderText(Tail(ls))

\* the sequences of at most n lines drawn from the set S
TextsOf(S, n) == UNION {[1..k -> S] : k \in 0..n}

\* "random text no colon"
JunkLine == LineOf(<<>>, <<"r","a","n","d","o","m">>, <<" ">>,
                   <<"t","e","x","t">>, <<>>)

\* the part codes the procurement table may hold
StoredParts == {BEAR_003_01, SEAL_003_02}

\* longest parts list handed to a tool
MaxLines == 2

\* the lines handed to check_parts_stock and generate_procurement_order
ToolLines ==
    { LineOf(<<>>, BEAR_003_01, ColonSep, <<"0">>, <<>>),
      LineOf(<<>>, BEAR_003_01, ColonSep, <<"5">>, UnitsWord),
      LineOf(<<>>, SEAL_003_02, ColonSep, <<"1">>, <<>>),
      LineOf(<<>>, bear_003_01, ColonSep, <<"1">>, <<>>),
      JunkLine }

\* longest text handed to the parser alone
MaxParseLines == 2

\* "units each": more than one word after the quantity
UnitsEach == UnitsWord \o <<" ", "e","a","c","h">>

\* "- ", "U+2022 " (the bullet character), "* ", "1. ", "1) ", and a marker
\* with spaces around it or none after it
ParseMarkers ==
    { <<"-", " ">>, <<"U+2022", " ">>, <<"*", " ">>, <<"1", ".", " ">>,
      <<"1", ")", " ">>, <<" ", "-", " ", " ">>, <<"1", ".">> }
ParseParts == {BEAR_003_01, bear_003_01, BEAR_03_01}
ParseSeps == {ColonSep, DashSep, <<" ">>}
ParseQtys == {<<"2">>, <<"0">>, <<"0", "7">>, <<"t","w","o">>}
ParseUnits == {<<>>, UnitsWord}

\* the lines handed to parse_parts_list alone: every part code with every
\* separator and trailing word, every quantity text, every list marker
ParseSampleLines ==
    { LineOf(<<>>, p, s, <<"2">>, u) : p \in ParseParts, s \in ParseSeps,
                                       u \in ParseUnits }
    \cup { LineOf(<<>>, BEAR_003_01, s, q, <<>>) : s \in {ColonSep, DashSep},
                                                   q \in ParseQtys }
    \cup { LineOf(m, BEAR_003_01, ColonSep, <<"2">>, <<>>) : m \in ParseMarkers }
    \cup { LineOf(m, BEAR_003_01, DashSep, <<"2">>, <<>>) :
              m \in {<<"-", " ">>, <<"1", ".", " ">>} }
    \cup {LineOf(<<>>, BEAR_003_01, ColonSep, <<"2">>, UnitsEach), JunkLine}

\* LETTERS-DDD-DD
IsPartCode(p) ==
    LET l == SkipWhile(p, 1, Letters)
    IN  /\ l > 1
        /\ Len(p) = l + 6
        /\ p[l] = "-" /\ p[l + 4] = "-"
        /\ \A k \in {l + 1, l + 2, l + 3, l + 5, l + 6} : p[k] \in Digits

IsDecimal(q) == q # <<>> /\ \A k \in 1..Len(q) : q[k] \in Digits

\* 'PART: N' and 'PART: N units'
IsColonForm(d) ==
    /\ d.marker = <<>> /\ IsPartCode(d.part) /\ d.sep = ColonSep
    /\ IsDecimal(d.qty) /\ d.unit \in {<<>>, UnitsWord}

\* 'PART - N'
IsDashForm(d) ==
    /\ d.marker = <<>> /\ IsPartCode(d.part) /\ d.sep = DashSep
    /\ IsDecimal(d.qty) /\ d.unit = <<>>

----------------------------------------------------------------------------
(* The parser alone *)

\* SUM(...) over no rows is NULL: is_null marks the NULL aggregates
NoSummary ==
    [total_parts |-> 0, in_stock |-> 0, low_stock |-> 0, out_of_stock |-> 0,
     total_inventory_value |-> 0, is_null |-> TRUE]
NoResult == [kind |-> "none", rows |-> <<>>, total_cost |-> 0, summary |-> NoSummary]
\* fetchone() of a SELECT that matches no row
NoRecord == [found |-> FALSE]

InitParse ==
    /\ store = [p \in StoredParts |-> NoRecord]
    /\ pc = "idle"
    /\ tool = "none"
    /\ request_lines \in TextsOf(ParseSampleLines, MaxParseLines)
    /\ parts_text = RenderText(request_lines)
    /\ parts_needed = <<>>
    /\ queries = <<>>
    /\ stock_status = <<>>
    /\ parts_to_order = <<>>
    /\ total_cost = 0
    /\ conn = "none"
    /\ opened = 0
    /\ summary = NoSummary
    /\ error = "none"
    /\ result = NoResult
    /\ service_parts = <<>>
    /\ ppc = "idle"
    /\ parts = <<>>
    /\ stock_data = <<>>
    /\ uncommitted = <<>>
    /\ NoWorkflow

Parse ==
    /\ pc = "idle"
    /\ pc' = "parsed"
    /\ parts_needed' = parse_parts_list(parts_text)
    /\ UNCHANGED <<store, tool, request_lines, parts_text, queries, stock_status,
                   parts_to_order, total_cost, conn, opened, summary, error, result,
                   popvars, mlvars>>

NextParse == Parse

SpecParse == InitParse /\ [][NextParse]_vars

----------------------------------------------------------------------------
(* The procurement.parts_stock table *)

\* largest current_stock of a row
MaxStock == 2

\* minimum_stock, reorder_point and the cost go by the part's category
\* (PART_CATEGORIES of populate_procurement.py): BEAR, GREASE and MOTOR
StockProfiles ==
    { [part_description |-> "Bear component for maintenance",
       minimum_stock |-> 1, reorder_point |-> 3, unit_cost |-> 4250,
       supplier |-> "Quality Bearings Ltd."],
      [part_description |-> "Grease component for maintenance",
       minimum_stock |-> 2, reorder_point |-> 4, unit_cost |-> 1299,
       supplier |-> "Industrial Supply Co."],
      [part_description |-> "Motor component for maintenance",
       minimum_stock |-> 0, reorder_point |-> 2, unit_cost |-> 25000,
       supplier |-> "Parts Warehouse"] }

StockRows(p) ==
    { [found |-> TRUE, part_number |-> p,
       part_description |-> f.part_description, current_stock |-> c,
       minimum_stock |-> f.minimum_stock, reorder_point |-> f.reorder_point,
       unit_cost |-> f.unit_cost, supplier |-> f.supplier] :
      f \in StockProfiles, c \in 0..MaxStock }

\* the tables: each stored part has one row or none
Tables ==
    { t \in [StoredParts -> UNION {StockRows(p) : p \in StoredParts} \cup {NoRecord}] :
        \A p \in StoredParts : t[p].found => t[p].part_number = p }

\* str.upper() on a sequence of characters
UpperCase(chars) ==
    LET up == [c \in Lower |->
                  CHOOSE u \in Upper :
                      \E k \in 1..26 : /\ c = SubSeq("abcdefghijklmnopqrstuvwxyz", k, k)
                                        /\ u = SubSeq("ABCDEFGHIJKLMNOPQRSTUVWXYZ", k, k)]
    IN  [i \in 1..Len(chars) |->
            IF chars[i] \in Lower THEN up[chars[i]] ELSE chars[i]]

fetchone_IgnoreCase(table, part_number) ==
    IF UpperCase(part_number) \in DOMAIN table
    THEN table[UpperCase(part_number)] ELSE NoRecord

\* SELECT ... FROM procurement.parts_stock WHERE part_number = %s; fetchone()
fetchone(table, part_number) ==
    IF part_number \in DOMAIN table THEN table[part_number] ELSE NoRecord

----------------------------------------------------------------------------
(* check_parts_stock and generate_procurement_order *)

\* the buffer added to an order
Buffer == 2

Max(a, b) == IF a >= b THEN a ELSE b

\* the classification as it would be with the reorder point test reversed
Classify_ReorderTestReversed(current_stock, reorder_point, quantity_needed) ==
    IF current_stock >= quantity_needed
    THEN [status |-> "IN STOCK", needs_order |-> FALSE]
    ELSE IF current_stock < reorder_point
    THEN [status |-> "LOW STOCK", needs_order |-> TRUE]
    ELSE [status |-> "OUT OF STOCK", needs_order |-> TRUE]

\* the classification as it would be with > in place of >=
Classify_Strict(current_stock, reorder_point, quantity_needed) ==
    IF current_stock > quantity_needed
    THEN [status |-> "IN STOCK", needs_order |-> FALSE]
    ELSE IF current_stock > reorder_point
    THEN [status |-> "LOW STOCK", needs_order |-> TRUE]
    ELSE [status |-> "OUT OF STOCK", needs_order |-> TRUE]

\* the status and needs_order of a found part
Classify(current_stock, reorder_point, quantity_needed) ==
    IF current_stock >= quantity_needed
    THEN [status |-> "IN STOCK", needs_order |-> FALSE]
    ELSE IF current_stock >= reorder_point
    THEN [status |-> "LOW STOCK", needs_order |-> TRUE]
    ELSE [status |-> "OUT OF STOCK", needs_order |-> TRUE]

\* the assessment of a part that is not in the table
NotFoundAssessment(part_number, quantity_needed) ==
    [part_number |-> part_number,
     description |-> "Not in procurement system",
     quantity_needed |-> quantity_needed,
     current_stock |-> 0,
     status |-> "NOT FOUND",
     needs_order |-> TRUE,
     unit_cost |-> 0,
     supplier |-> "Unknown"]

\* the assessment check_parts_stock appends for one request
Assess(stock_info, part_number, quantity_needed) ==
    IF stock_info.found
    THEN LET c == Classify(stock_info.current_stock, stock_info.reorder_point,
                           quantity_needed)
         IN  [part_number |-> stock_info.part_number,
              description |-> stock_info.part_description,
              quantity_needed |-> quantity_needed,
              current_stock |-> stock_info.current_stock,
              status |-> c.status,
              needs_order |-> c.needs_order,
              unit_cost |-> stock_info.unit_cost,
              supplier |-> stock_info.supplier]
    ELSE NotFoundAssessment(part_number, quantity_needed)

\* the order quantity as it would be without the buffer
OrderQuantity_NoBuffer(current_stock, reorder_point, quantity_needed) ==
    IF current_stock < reorder_point
    THEN Max(quantity_needed - current_stock, reorder_point - current_stock)
    ELSE quantity_needed - current_stock

\* the order quantity as it would be with the subtraction turned around
OrderQuantity_Reversed(current_stock, reorder_point, quantity_needed) ==
    IF current_stock < reorder_point
    THEN Max(current_stock - quantity_needed, reorder_point - current_stock + Buffer)
    ELSE current_stock - quantity_needed

\* how many of a found part generate_procurement_order orders
OrderQuantity(current_stock, reorder_point, quantity_needed) ==
    IF current_stock < reorder_point
    THEN Max(quantity_needed - current_stock, reorder_point - current_stock + Buffer)
    ELSE quantity_needed - current_stock

\* the test as it would be if parts below the reorder point were ordered
NeedsOrdering_BelowReorderPoint(stock_info, quantity_needed) ==
    stock_info.current_stock < stock_info.reorder_point

\* whether generate_procurement_order orders a found part
NeedsOrdering(stock_info, quantity_needed) ==
    stock_info.current_stock < quantity_needed

\* the order line as it would be without the buffer
NotFoundOrderLine_NoBuffer(part_number, quantity_needed) ==
    [part_number |-> part_number,
     description |-> "Not in procurement system",
     quantity_needed |-> quantity_needed,
     current_stock |-> 0,
     order_quantity |-> quantity_needed,
     unit_cost |-> 0,
     total_cost |-> 0,
     supplier |-> "Unknown"]

\* the order line of a part that is not in the table
NotFoundOrderLine(part_number, quantity_needed) ==
    [part_number |-> part_number,
     description |-> "Not in procurement system",
     quantity_needed |-> quantity_needed,
     current_stock |-> 0,
     order_quantity |-> quantity_needed + Buffer,
     unit_cost |-> 0,
     total_cost |-> 0,
     supplier |-> "Unknown"]

\* the order lines generate_procurement_order appends for one request
OrderLines(stock_info, part_number, quantity_needed) ==
    IF stock_info.found
    THEN IF NeedsOrdering(stock_info, quantity_needed)
         THEN LET order_quantity ==
                      OrderQuantity(stock_info.current_stock,
                                    stock_info.reorder_point, quantity_needed)
              IN  <<[part_number |-> stock_info.part_number,
                     description |-> stock_info.part_description,
                     quantity_needed |-> quantity_needed,
                     current_stock |-> stock_info.current_stock,
                     order_quantity |-> order_quantity,
                     unit_cost |-> stock_info.unit_cost,
                     total_cost |-> order_quantity * stock_info.unit_cost,
                     supplier |-> stock_info.supplier]>>
         ELSE <<>>
    ELSE <<NotFoundOrderLine(part_number, quantity_needed)>>

\* the addition as it would be if every found part were counted
CostAdded_EveryFoundPart(stock_info, quantity_needed) ==
    IF stock_info.found
    THEN OrderQuantity(stock_info.current_stock, stock_info.reorder_point,
                       quantity_needed) * stock_info.unit_cost
    ELSE 0

\* what one request adds to generate_procurement_order's total_cost
CostAdded(stock_info, quantity_needed) ==
    IF stock_info.found /\ NeedsOrdering(stock_info, quantity_needed)
    THEN OrderQuantity(stock_info.current_stock, stock_info.reorder_point,
                       quantity_needed) * stock_info.unit_cost
    ELSE 0

\* the answer to an empty parts list as it would be if it were raised into
\* the except clause
NoValidParts_Raised ==
    [kind |-> "failure", rows |-> <<>>, total_cost |-> 0, summary |-> NoSummary]

\* "Error: No valid parts found in the input. ..."
NoValidParts ==
    [kind |-> "no_valid_parts", rows |-> <<>>, total_cost |-> 0, summary |-> NoSummary]

\* the except clause as it would be if it returned what was computed so far
ExceptionResult_KeepsRows(computed_rows) ==
    [kind |-> "failure", rows |-> computed_rows, total_cost |-> 0,
     summary |-> NoSummary]

\* the except clause of a tool: "Error ...: {str(e)}", whatever was computed
ExceptionResult(computed_rows) ==
    [kind |-> "failure", rows |-> <<>>, total_cost |-> 0, summary |-> NoSummary]

\* check_parts_stock's report: one table row per assessment
StockReport(status_list) ==
    [kind |-> "stock_report", rows |-> status_list, total_cost |-> 0,
     summary |-> NoSummary]

\* the result as it would be without the test for an empty order
OrderResult_EmptyOrder(orders, cost) ==
    [kind |-> "order", rows |-> orders, total_cost |-> cost, summary |-> NoSummary]

\* generate_procurement_order's result once every part is looked up
OrderResult(orders, cost) ==
    IF orders = <<>>
    THEN [kind |-> "no_order_needed", rows |-> <<>>, total_cost |-> 0,
          summary |-> NoSummary]
    ELSE [kind |-> "order", rows |-> orders, total_cost |-> cost,
          summary |-> NoSummary]

\* whether cursor.close(); conn.close() run before the tool returns its result
ClosesOnReturn(t, orders) == t # "order" \/ orders # <<>>

\* entry of check_parts_stock ("check") and generate_procurement_order
\* ("order"): parse, return at once on an empty list, else connect
StartTool(t, ls) ==
    /\ pc = "idle"
    /\ tool' = t
    /\ request_lines' = ls
    /\ parts_text' = RenderText(ls)
    /\ parts_needed' = parse_parts_list(parts_text')
    /\ queries' = <<>>
    /\ stock_status' = <<>>
    /\ parts_to_order' = <<>>
    /\ total_cost' = 0
    /\ summary' = NoSummary
    /\ IF parts_needed' = <<>>
       THEN pc' = "returned" /\ result' = NoValidParts
            /\ conn' = "none" /\ opened' = 0 /\ error' = "none"
       ELSE \E connected \in BOOLEAN :
              IF connected
              THEN pc' = "loop" /\ result' = NoResult
                   /\ conn' = "open" /\ opened' = 1 /\ error' = "none"
              ELSE pc' = "returned" /\ result' = ExceptionResult(<<>>)
                   /\ conn' = "none" /\ opened' = 0 /\ error' = "connect"
    /\ UNCHANGED <<store, popvars, mlvars>>

check_parts_stock ==
    \E ls \in TextsOf(ToolLines, MaxLines) : StartTool("check", ls)

generate_procurement_order ==
    \E ls \in TextsOf(ToolLines, MaxLines) : StartTool("order", ls)

\* the table as it would be if a part looked up were reserved: an UPDATE
\* taking the needed units out of current_stock
TableAfterSelect_Reserving(table, part_number, quantity_needed) ==
    IF part_number \in DOMAIN table /\ table[part_number].found
       /\ table[part_number].current_stock > 0
    THEN [table EXCEPT ![part_number].current_stock = 0]
    ELSE table

\* the table after the SELECT of one part: the tools issue no INSERT, UPDATE
\* or DELETE and never commit
TableAfterSelect(table, part_number, quantity_needed) == table

\* one iteration of the loop over parts_needed: the SELECT succeeds; after
\* the last part the tool formats its result, closes and returns
ExecuteSelect ==
    /\ pc = "loop"
    /\ LET i == Len(queries) + 1
           part_number == parts_needed[i].part_number
           quantity_needed == parts_needed[i].quantity
           stock_info == fetchone(store, part_number)
           statuses == IF tool = "check"
                       THEN Append(stock_status,
                                   Assess(stock_info, part_number, quantity_needed))
                       ELSE stock_status
           orders == IF tool = "order"
                     THEN parts_to_order
                          \o OrderLines(stock_info, part_number, quantity_needed)
                     ELSE parts_to_order
           cost == IF tool = "order"
                   THEN total_cost + CostAdded(stock_info, quantity_needed)
                   ELSE total_cost
       IN  /\ queries' = Append(queries, part_number)
           /\ store' = TableAfterSelect(store, part_number, quantity_needed)
           /\ stock_status' = statuses
           /\ parts_to_order' = orders
           /\ total_cost' = cost
           /\ IF i < Len(parts_needed)
              THEN UNCHANGED <<pc, result, conn>>
              ELSE /\ pc' = "returned"
                   /\ result' = IF tool = "check" THEN StockReport(statuses)
                                ELSE OrderResult(orders, cost)
                   /\ conn' = IF ClosesOnReturn(tool, orders) THEN "closed" ELSE conn
    /\ UNCHANGED <<tool, request_lines, parts_text, parts_needed, opened,
                   summary, error, popvars, mlvars>>

\* one iteration of the loop over parts_needed: cursor.execute raises
ExecuteRaises ==
    /\ pc = "loop"
    /\ queries' = Append(queries, parts_needed[Len(queries) + 1].part_number)
    /\ pc' = "returned"
    /\ result' = ExceptionResult(IF tool = "check" THEN stock_status
                                 ELSE parts_to_order)
    /\ error' = "query"
    /\ UNCHANGED <<store, tool, request_lines, parts_text, parts_needed,
                   stock_status, parts_to_order, total_cost, conn, opened, summary,
                   popvars, mlvars>>

----------------------------------------------------------------------------
(* get_stock_summary *)

\* LIMIT of the low-stock query
LowStockLimit == 10

RowsOf(table) == {table[p] : p \in {q \in DOMAIN table : table[q].found}}

RECURSIVE InventoryValue(_)
InventoryValue(rows) ==
    IF rows = {} THEN 0
    ELSE LET r == CHOOSE x \in rows : TRUE
         IN  r.current_stock * r.unit_cost + InventoryValue(rows \ {r})

\* the aggregate with a low_stock count that does not exclude the rows at or
\* below minimum_stock
Aggregate_Overlap(table) ==
    LET rows == RowsOf(table)
    IN  IF rows = {} THEN NoSummary
        ELSE [total_parts |-> Cardinality(rows),
              in_stock |->
                  Cardinality({r \in rows : r.current_stock > r.reorder_point}),
              low_stock |->
                  Cardinality({r \in rows : r.current_stock <= r.reorder_point}),
              out_of_stock |->
                  Cardinality({r \in rows : r.current_stock <= r.minimum_stock}),
              total_inventory_value |-> InventoryValue(rows),
              is_null |-> FALSE]

\* SELECT COUNT(*), SUM(CASE ...), ..., SUM(current_stock * unit_cost)
Aggregate(table) ==
    LET rows == RowsOf(table)
    IN  IF rows = {} THEN NoSummary
        ELSE [total_parts |-> Cardinality(rows),
              in_stock |->
                  Cardinality({r \in rows : r.current_stock > r.reorder_point}),
              low_stock |->
                  Cardinality({r \in rows : /\ r.current_stock <= r.reorder_point
                                            /\ r.current_stock > r.minimum_stock}),
              out_of_stock |->
                  Cardinality({r \in rows : r.current_stock <= r.minimum_stock}),
              total_inventory_value |-> InventoryValue(rows),
              is_null |-> FALSE]

\* the answers the low-stock query may give: the rows WHERE current_stock <=
\* reorder_point, ORDER BY current_stock ASC (ties in any order), LIMIT 10
LowStockAnswers(table) ==
    LET rows == {r \in RowsOf(table) : r.current_stock <= r.reorder_point}
        n == Cardinality(rows)
        sorted == { f \in [1..n -> rows] :
                      /\ \A i, j \in 1..n : i # j => f[i] # f[j]
                      /\ \A i, j \in 1..n :
                            i < j => f[i].current_stock <= f[j].current_stock }
    IN  { SubSeq(f, 1, IF n < LowStockLimit THEN n ELSE LowStockLimit) :
          f \in sorted }

\* entry of get_stock_summary: connect
get_stock_summary ==
    \E connected \in BOOLEAN :
        /\ pc = "idle"
        /\ tool' = "summary"
        /\ request_lines' = <<>>
        /\ parts_text' = <<>>
        /\ parts_needed' = <<>>
        /\ queries' = <<>>
        /\ stock_status' = <<>>
        /\ parts_to_order' = <<>>
        /\ total_cost' = 0
        /\ summary' = NoSummary
        /\ IF connected
           THEN pc' = "summary" /\ result' = NoResult
                /\ conn' = "open" /\ opened' = 1 /\ error' = "none"
           ELSE pc' = "returned" /\ result' = ExceptionResult(<<>>)
                /\ conn' = "none" /\ opened' = 0 /\ error' = "connect"
        /\ UNCHANGED <<store, popvars, mlvars>>

\* the aggregate query succeeds
SelectAggregate ==
    /\ pc = "summary"
    /\ queries = <<>>
    /\ queries' = <<<<"aggregate">>>>
    /\ summary' = Aggregate(store)
    /\ UNCHANGED <<store, pc, tool, request_lines, parts_text, parts_needed,
                   stock_status, parts_to_order, total_cost, conn, opened, error,
                   result, popvars, mlvars>>

\* the low-stock query succeeds; the tool formats its result (formatting the
\* NULL total_inventory_value of an empty table raises), closes and returns
SelectLowStock ==
    /\ pc = "summary"
    /\ Len(queries) = 1
    /\ queries' = Append(queries, <<"low_stock">>)
    /\ pc' = "returned"
    /\ \E low_stock_items \in LowStockAnswers(store) :
          IF summary.is_null
          THEN /\ result' = ExceptionResult(low_stock_items)
               /\ conn' = conn
               /\ error' = "format"
          ELSE /\ result' = [kind |-> "summary", rows |-> low_stock_items,
                             total_cost |-> 0, summary |-> summary]
               /\ conn' = "closed"
               /\ error' = "none"
    /\ UNCHANGED <<store, tool, request_lines, parts_text, parts_needed,
                   stock_status, parts_to_order, total_cost, opened, summary,
                   popvars, mlvars>>

\* either query of get_stock_summary raises
SummaryRaises ==
    /\ pc = "summary"
    /\ queries' = Append(queries, <<"raised">>)
    /\ pc' = "returned"
    /\ result' = ExceptionResult(<<>>)
    /\ error' = "query"
    /\ UNCHANGED <<store, tool, request_lines, parts_text, parts_needed,
                   stock_status, parts_to_order, total_cost, conn, opened, summary,
                   popvars, mlvars>>

----------------------------------------------------------------------------
(* The tools against a table *)

\* the server hands the returned text to the caller and waits for the next
\* call: the invocation's locals are gone
Respond ==
    /\ pc = "returned"
    /\ pc' = "idle"
    /\ tool' = "none"
    /\ request_lines' = <<>>
    /\ parts_text' = <<>>
    /\ parts_needed' = <<>>
    /\ queries' = <<>>
    /\ stock_status' = <<>>
    /\ parts_to_order' = <<>>
    /\ total_cost' = 0
    /\ conn' = "none"
    /\ opened' = 0
    /\ summary' = NoSummary
    /\ error' = "none"
    /\ result' = NoResult
    /\ UNCHANGED <<store, popvars, mlvars>>

Init ==
    /\ store \in Tables
    /\ pc = "idle"
    /\ tool = "none"
    /\ request_lines = <<>>
    /\ parts_text = <<>>
    /\ parts_needed = <<>>
    /\ queries = <<>>
    /\ stock_status = <<>>
    /\ parts_to_order = <<>>
    /\ total_cost = 0
    /\ conn = "none"
    /\ opened = 0
    /\ summary = NoSummary
    /\ error = "none"
    /\ result = NoResult
    /\ service_parts = <<>>
    /\ ppc = "idle"
    /\ parts = <<>>
    /\ stock_data = <<>>
    /\ uncommitted = <<>>
    /\ NoWorkflow

Next ==
    \/ check_parts_stock
    \/ generate_procurement_order
    \/ ExecuteSelect
    \/ ExecuteRaises
    \/ get_stock_summary
    \/ SelectAggregate
    \/ SelectLowStock
    \/ SummaryRaises
    \/ Respond

Spec == Init /\ [][Next]_vars

----------------------------------------------------------------------------
(* Properties *)

\* the row of the table a request is about
RowFor(i) == fetchone(store, parts_needed[i].part_number)

\* check_parts_stock returned its report
CheckReported == pc = "returned" /\ tool = "check" /\ result.kind = "stock_report"

\* generate_procurement_order looked every part up and returned
OrderCompleted ==
    /\ pc = "returned" /\ tool = "order" /\ error = "none"
    /\ parts_needed # <<>>

\* the requests generate_procurement_order has to order: not in the table,
\* or fewer in stock than needed
ToOrder(i) ==
    ~RowFor(i).found \/ RowFor(i).current_stock < parts_needed[i].quantity

\* C1: in a report of check_parts_stock, the request of a part that has a
\* stock record is IN STOCK with needs_order false exactly when current_stock
\* >= quantity_needed, else LOW STOCK with needs_order true when current_stock
\* >= reorder_point, else OUT OF STOCK with needs_order true.
C1_Classification ==
    CheckReported =>
        /\ Len(result.rows) = Len(parts_needed)
        /\ \A i \in 1..Len(parts_needed) :
              LET row == RowFor(i)
                  a == result.rows[i]
                  q == parts_needed[i].quantity
              IN  row.found =>
                    /\ (a.status = "IN STOCK") <=> (row.current_stock >= q)
                    /\ (a.needs_order = FALSE) <=> (row.current_stock >= q)
                    /\ (a.status = "LOW STOCK") <=>
                          (row.current_stock < q
                           /\ row.current_stock >= row.reorder_point)
                    /\ (a.status = "OUT OF STOCK") <=>
                          (row.current_stock < q
                           /\ row.current_stock < row.reorder_point)
                    /\ a.status \in {"IN STOCK", "LOW STOCK", "OUT OF STOCK"}

\* C1 witness: a report with an IN STOCK row whose stock is below the reorder
\* point and a LOW STOCK row
C1_Witness ==
    /\ CheckReported
    /\ \E i, j \in 1..Len(result.rows) :
          /\ result.rows[i].status = "IN STOCK"
          /\ RowFor(i).found
          /\ RowFor(i).current_stock < RowFor(i).reorder_point
          /\ result.rows[j].status = "LOW STOCK"

\* C2: for every found part with current_stock < quantity_needed the order
\* holds a line whose order_quantity is max(quantity_needed - current_stock,
\* reorder_point - current_stock + 2) below the reorder point and
\* quantity_needed - current_stock otherwise.
C2_OrderQuantity ==
    OrderCompleted =>
        \A i \in 1..Len(parts_needed) :
            LET row == RowFor(i)
                q == parts_needed[i].quantity
                base == q - row.current_stock
                refill == row.reorder_point - row.current_stock + 2
            IN  (row.found /\ row.current_stock < q) =>
                  \E j \in 1..Len(result.rows) :
                      LET o == result.rows[j]
                      IN  /\ o.part_number = parts_needed[i].part_number
                          /\ o.quantity_needed = q
                          /\ o.current_stock = row.current_stock
                          /\ o.order_quantity >= base
                          /\ IF row.current_stock < row.reorder_point
                             THEN /\ o.order_quantity >= refill
                                  /\ o.order_quantity \in {base, refill}
                             ELSE o.order_quantity = base

\* C2 witness: an order in which the buffer decides one quantity and the
\* requirement decides another
C2_Witness ==
    /\ OrderCompleted
    /\ result.kind = "order"
    /\ \E i, j \in 1..Len(result.rows) :
          /\ result.rows[i].supplier # "Unknown"
          /\ result.rows[i].order_quantity
                > result.rows[i].quantity_needed - result.rows[i].current_stock
          /\ result.rows[j].supplier # "Unknown"
          /\ result.rows[j].order_quantity
                = result.rows[j].quantity_needed - result.rows[j].current_stock
          /\ \E k \in 1..Len(parts_needed) :
                /\ parts_needed[k].part_number = result.rows[j].part_number
                /\ RowFor(k).current_stock < RowFor(k).reorder_point

DecimalDigits == <<"0", "1", "2", "3", "4", "5", "6", "7", "8", "9">>

RECURSIVE LiteralValue(_)
\* the number a decimal literal denotes, most significant digit first
LiteralValue(q) ==
    IF q = <<>> THEN 0
    ELSE ((CHOOSE n \in 1..10 : DecimalDigits[n] = q[1]) - 1) * 10 ^ (Len(q) - 1)
         + LiteralValue(Tail(q))

\* the pair a well-formed line asks for
PairOf(d) == [part_number |-> d.part, quantity |-> LiteralValue(d.qty)]

WellFormed(d) == IsColonForm(d) \/ IsDashForm(d)

\* C3: for every input line 'PART: N', 'PART: N units' or 'PART - N' the
\* parser returns exactly the pair (PART, N): a text of such lines parses to
\* their pairs, line by line.
C3_WellFormedLinesParsed ==
    (pc = "parsed" /\ \A i \in 1..Len(request_lines) : WellFormed(request_lines[i]))
        => parts_needed = [i \in 1..Len(request_lines) |-> PairOf(request_lines[i])]

\* C4: when the connection or a query fails, the tool returns one failure
\* message without any assessment or order row, also when rows were computed
\* before the failure; a call that got past parsing returns either the whole
\* batch or that failure message.
C4_FailureAbortsBatch ==
    (pc = "returned" /\ tool \in {"check", "order"}) =>
        /\ error # "none" => (result.kind = "failure" /\ result.rows = <<>>)
        /\ (tool = "check" /\ parts_needed # <<>>) =>
              \/ result.kind = "failure" /\ result.rows = <<>>
              \/ result.kind = "stock_report"
                 /\ Len(result.rows) = Len(parts_needed)
        /\ (tool = "order" /\ parts_needed # <<>>) =>
              \/ result.kind = "failure" /\ result.rows = <<>>
              \/ result.kind \in {"order", "no_order_needed"}
                 /\ Len(queries) = Len(parts_needed)

\* C4 witness: the query of the second part raised after the first part was
\* assessed
C4_Witness ==
    /\ pc = "returned" /\ tool = "check" /\ error = "query"
    /\ Len(stock_status) = 1
    /\ Len(parts_needed) = 2
    /\ result.kind = "failure"

\* C5: a part without a stock record is assessed NOT FOUND with needs_order
\* true, current_stock 0, unit_cost 0 and supplier 'Unknown', and is ordered
\* with order_quantity = quantity_needed + 2 and total_cost 0; the other parts
\* of the batch are assessed all the same.
C5_NotFound ==
    /\ CheckReported =>
          /\ Len(result.rows) = Len(parts_needed)
          /\ \A i \in 1..Len(parts_needed) :
                ~RowFor(i).found =>
                    LET a == result.rows[i]
                    IN  /\ a.part_number = parts_needed[i].part_number
                        /\ a.status = "NOT FOUND"
                        /\ a.needs_order = TRUE
                        /\ a.current_stock = 0
                        /\ a.unit_cost = 0
                        /\ a.supplier = "Unknown"
    /\ OrderCompleted =>
          \A i \in 1..Len(parts_needed) :
              ~RowFor(i).found =>
                  /\ result.kind = "order"
                  /\ \E j \in 1..Len(result.rows) :
                        LET o == result.rows[j]
                        IN  /\ o.part_number = parts_needed[i].part_number
                            /\ o.quantity_needed = parts_needed[i].quantity
                            /\ o.order_quantity = parts_needed[i].quantity + 2
                            /\ o.total_cost = 0
                            /\ o.unit_cost = 0
                            /\ o.supplier = "Unknown"

\* C5 witness: an order with a line for a part that has no record, for a
\* batch whose other part is in the table
C5_Witness ==
    /\ OrderCompleted
    /\ Len(parts_needed) = 2
    /\ \E i, k \in 1..2 : ~RowFor(i).found /\ RowFor(k).found
    /\ \E j \in 1..Len(result.rows) : result.rows[j].supplier = "Unknown"

RECURSIVE LinesCost(_)
\* the sum of order_quantity x unit_cost over order lines
LinesCost(lines) ==
    IF lines = <<>> THEN 0
    ELSE Head(lines).order_quantity * Head(lines).unit_cost + LinesCost(Tail(lines))

\* C6: the total_cost of an order is the sum of order_quantity x unit_cost
\* over exactly the order lines returned.
C6_TotalCost ==
    (pc = "returned" /\ tool = "order" /\ result.kind = "order") =>
        result.total_cost = LinesCost(result.rows)

\* C6 witness: an order with a positive total for a batch of which one part
\* is in stock and needs no order
C6_Witness ==
    /\ pc = "returned" /\ tool = "order" /\ result.kind = "order"
    /\ result.total_cost > 0
    /\ Len(parts_needed) = 2
    /\ Len(result.rows) = 1

\* what check_parts_stock assesses for the text and the table of this
\* invocation
Assessments ==
    [i \in 1..Len(parts_needed) |->
        Assess(RowFor(i), parts_needed[i].part_number, parts_needed[i].quantity)]

NeedsOrder(a) == a.needs_order

RequestedLines == SelectSeq(request_lines, IsColonForm)

\* C9: one keyed read per parsed request and one assessment per request, in
\* the order of the lines; a part listed k times is read and assessed k times
\* (and ordered k times when it needs ordering).
C9_OnePerRequest ==
    (pc = "returned" /\ tool \in {"check", "order"} /\ error = "none") =>
        /\ Len(parts_needed) = Len(RequestedLines)
        /\ \A i \in 1..Len(parts_needed) :
              parts_needed[i].part_number = RequestedLines[i].part
        /\ queries = [i \in 1..Len(parts_needed) |-> parts_needed[i].part_number]
        /\ tool = "check" /\ parts_needed # <<>> =>
              /\ Len(result.rows) = Len(parts_needed)
              /\ \A i \in 1..Len(parts_needed) :
                    /\ result.rows[i].part_number = parts_needed[i].part_number
                    /\ result.rows[i].quantity_needed = parts_needed[i].quantity
        /\ tool = "order" =>
              Len(parts_to_order)
                  = Cardinality({i \in 1..Len(parts_needed) : ToOrder(i)})

\* C9 witness: a part listed twice and ordered twice
C9_Witness ==
    /\ OrderCompleted
    /\ Len(parts_needed) = 2
    /\ parts_needed[1].part_number = parts_needed[2].part_number
    /\ Len(queries) = 2
    /\ Len(parts_to_order) = 2

\* C10: a tool opens at most one connection and has closed it when it
\* returns, on every return path.
C10_ConnectionClosedOnReturn ==
    /\ opened <= 1
    /\ pc = "returned" => conn # "open"

\* C11: whatever the tools are called with and however the calls end, the
\* rows of the table stay as they are: no step of a tool changes the table.
C11_ToolsOnlyRead == [][store' = store]_vars

\* C11 witness: an order was returned and a query raised in other calls; here
\* a completed order for a part that is in the table
C11_Witness ==
    /\ pc = "returned" /\ tool = "order" /\ result.kind = "order"
    /\ \E i \in 1..Len(parts_needed) : RowFor(i).found

\* a row with current_stock < minimum_stock <= reorder_point
Depleted(row) ==
    /\ row.found
    /\ row.current_stock < row.minimum_stock
    /\ row.minimum_stock <= row.reorder_point

\* C12: in a report of check_parts_stock, every request for a part whose row
\* has current_stock < minimum_stock <= reorder_point is OUT OF STOCK.
C12_DepletedIsOutOfStock ==
    CheckReported =>
        \A i \in 1..Len(parts_needed) :
            Depleted(RowFor(i)) => result.rows[i].status = "OUT OF STOCK"

\* C12 as amended: for such a row, a request for more than current_stock
\* units is OUT OF STOCK with needs_order true, never LOW STOCK, and a request
\* for at most current_stock units is IN STOCK with needs_order false.
C12_DepletedByQuantity ==
    CheckReported =>
        \A i \in 1..Len(parts_needed) :
            LET row == RowFor(i)
                a == result.rows[i]
            IN  Depleted(row) =>
                  IF parts_needed[i].quantity > row.current_stock
                  THEN a.status = "OUT OF STOCK" /\ a.needs_order
                  ELSE a.status = "IN STOCK" /\ ~a.needs_order

\* C12 witness: one report with a depleted row asked for more than it holds
\* and a depleted row asked for no more than it holds
C12_Witness ==
    /\ CheckReported
    /\ \E i, j \in 1..Len(parts_needed) :
          /\ Depleted(RowFor(i)) /\ Depleted(RowFor(j))
          /\ parts_needed[i].quantity > RowFor(i).current_stock
          /\ RowFor(j).current_stock > 0
          /\ parts_needed[j].quantity <= RowFor(j).current_stock
          /\ result.rows[i].status = "OUT OF STOCK"
          /\ result.rows[j].status = "IN STOCK"

\* C13: a completed generate_procurement_order has an order line for every
\* requested part that is not in stock in the needed quantity or whose
\* current_stock is below its reorder_point.
C13_OrderBelowReorderPoint ==
    OrderCompleted =>
        \A i \in 1..Len(parts_needed) :
            LET row == RowFor(i)
            IN  (row.found /\ (row.current_stock < parts_needed[i].quantity
                               \/ row.current_stock < row.reorder_point)) =>
                  /\ result.kind = "order"
                  /\ \E j \in 1..Len(result.rows) :
                        /\ result.rows[j].part_number = parts_needed[i].part_number
                        /\ result.rows[j].quantity_needed = parts_needed[i].quantity

\* the line holds a ':' somewhere
HasColon(d) == \E k \in 1..Len(RenderLine(d)) : RenderLine(d)[k] = ":"

\* the lines of the request that pass the test f, in their order
LinesWhere(f(_)) == SelectSeq(request_lines, f)

Malformed(d) ==
    \/ d.sep \notin {ColonSep, DashSep}
    \/ ~IsPartCode(d.part)
    \/ ~IsDecimal(d.qty)
    \/ d.unit \notin {<<>>, UnitsWord}

NotMalformed(d) == ~Malformed(d)

\* C15: a line that matches neither pattern gives no pair, whole or partial,
\* and no error, and leaves the pairs of the other lines as they are: the
\* parser returns what it returns for the text without those lines, every
\* pair being the pair of a line that is not malformed.
C15_MalformedDropped ==
    pc = "parsed" =>
        LET kept == LinesWhere(NotMalformed)
        IN  /\ error = "none"
            /\ parts_needed = parse_parts_list(RenderText(kept))
            /\ Len(parts_needed) <= Len(kept)
            /\ \A k \in 1..Len(parts_needed) :
                  \E i \in 1..Len(kept) : parts_needed[k] = PairOf(kept[i])

\* C15 witness: a line with text after the quantity word next to a
\* 'PART: N' line; only the second gave a pair
C15_Witness ==
    /\ pc = "parsed"
    /\ Len(request_lines) = 2
    /\ request_lines[1].unit = UnitsEach
    /\ IsColonForm(request_lines[2])
    /\ request_lines[2].qty # request_lines[1].qty
    /\ parts_needed = <<PairOf(request_lines[2])>>

\* C16: every pair the parser returns has a quantity above zero.
C16_PositiveQuantity ==
    pc = "parsed" =>
        \A k \in 1..Len(parts_needed) : parts_needed[k].quantity > 0

RECURSIVE DecimalText(_)
\* the decimal literal of a natural number, without leading zeros
DecimalText(n) ==
    IF n < 10 THEN <<DecimalDigits[n + 1]>>
    ELSE Append(DecimalText(n \div 10), DecimalDigits[(n % 10) + 1])

\* the canonical line 'P: N' of a pair
Canonical(pair) ==
    LineOf(<<>>, pair.part_number, ColonSep, DecimalText(pair.quantity), <<>>)

\* C17: each pair (P, N) the parser returns parses, written 'P: N', to
\* exactly that pair, and the whole result, written one 'P: N' per line,
\* parses to the same pairs in the same order.
C17_CanonicalReparse ==
    pc = "parsed" =>
        /\ \A k \in 1..Len(parts_needed) :
              parse_parts_list(RenderLine(Canonical(parts_needed[k])))
                 = <<parts_needed[k]>>
        /\ parse_parts_list(RenderText([k \in 1..Len(parts_needed) |->
                                           Canonical(parts_needed[k])]))
              = parts_needed

\* C17 witness: two pairs came from lines that are not canonical (a list
\* marker, a leading zero, a quantity word, lower case letters)
C17_Witness ==
    /\ pc = "parsed"
    /\ Len(parts_needed) = 2
    /\ parts_needed[1] # parts_needed[2]
    /\ \A i \in 1..2 :
          RenderLine(request_lines[i]) # RenderLine(Canonical(parts_needed[i]))

\* the line without its list marker
Unmarked(d) == [d EXCEPT !.marker = <<>>]

\* a 'PART: N' line with at most one list marker in front
MarkedColonForm(d) ==
    d.marker \in ParseMarkers \cup {<<>>} /\ IsColonForm(Unmarked(d))

\* C20: one bullet or numbered-list marker in front of a 'PART: N' line, with
\* or without spaces around it, does not change the pair: a text of such
\* lines parses to what the text without the markers parses to, the pair of
\* each line in its place.
C20_MarkersIgnored ==
    (pc = "parsed" /\ \A i \in 1..Len(request_lines) :
                          MarkedColonForm(request_lines[i]))
    => /\ parts_needed
            = parse_parts_list(RenderText([i \in 1..Len(request_lines) |->
                                              Unmarked(request_lines[i])]))
       /\ parts_needed = [i \in 1..Len(request_lines) |-> PairOf(request_lines[i])]

\* C20 witness: a line with a bullet and a line with a number, both parsed
C20_Witness ==
    /\ pc = "parsed"
    /\ Len(request_lines) = 2
    /\ request_lines[1].marker = <<"U+2022", " ">>
    /\ request_lines[2].marker = <<"1", ")", " ">>
    /\ Len(parts_needed) = 2

\* C18: when no line of the input gives a pair, check_parts_stock and
\* generate_procurement_order return the 'no valid parts found' message, the
\* same for an empty input and for lines that are all malformed, with no
\* error raised, no connection opened and no query made.
C18_NoValidParts ==
    (pc = "returned" /\ tool \in {"check", "order"} /\ parts_needed = <<>>)
    => /\ result = [kind |-> "no_valid_parts", rows |-> <<>>, total_cost |-> 0,
                    summary |-> NoSummary]
       /\ error = "none"
       /\ opened = 0 /\ conn = "none"
       /\ queries = <<>>

\* C18 witness: generate_procurement_order answered two lines without ':'
C18_Witness ==
    /\ pc = "returned" /\ tool = "order"
    /\ request_lines = <<JunkLine, JunkLine>>
    /\ result.kind = "no_valid_parts"

\* C19: every line of a returned order, of a part in the table or not and
\* whatever the quantity asked for, has order_quantity > 0 and total_cost =
\* order_quantity * unit_cost.
C19_OrderLines ==
    (pc = "returned" /\ tool = "order") =>
        \A j \in 1..Len(result.rows) :
            /\ result.rows[j].order_quantity > 0
            /\ result.rows[j].total_cost
                  = result.rows[j].order_quantity * result.rows[j].unit_cost

\* C19 witness: an order with a line for a part that is not in the table,
\* asked for 0 units, and a line for a part that is, with its cost
C19_Witness ==
    /\ OrderCompleted /\ result.kind = "order"
    /\ \E i, j \in 1..Len(result.rows) :
          /\ result.rows[i].supplier = "Unknown"
          /\ result.rows[i].quantity_needed = 0
          /\ result.rows[i].order_quantity = Buffer
          /\ result.rows[j].supplier # "Unknown"
          /\ result.rows[j].order_quantity > result.rows[j].quantity_needed
          /\ result.rows[j].total_cost > 0

----------------------------------------------------------------------------
(* populate_procurement_table: the script that fills procurement.parts_stock *)
(* from maintenance.service_parts, in one transaction                        *)

\* most rows of maintenance.service_parts
MaxServiceParts == 3

\* the part column as ingest_data.py writes it: stripped, possibly blank
ServicePartValues == StoredParts \cup {<<>>}

\* rows of (equipment_id, part); two rows to an equipment, so that a part may
\* be listed twice for one equipment and for several equipments
ServiceRows(ps) ==
    [i \in 1..Len(ps) |-> [equipment_id |-> (i + 1) \div 2, part |-> ps[i]]]

ServicePartsTables ==
    {ServiceRows(ps) : ps \in TextsOf(ServicePartValues, MaxServiceParts)}

\* ORDER BY part: the blank string sorts first
PartOrder == <<<<>>, BEAR_003_01, SEAL_003_02>>

\* n copies of p
Copies(p, n) == [i \in 1..n |-> p]

\* the fetch as it would be without DISTINCT
SelectDistinctParts_All(rows) ==
    LET count(p) == Cardinality({i \in DOMAIN rows : rows[i].part = p})
    IN  Copies(PartOrder[1], count(PartOrder[1]))
        \o Copies(PartOrder[2], count(PartOrder[2]))
        \o Copies(PartOrder[3], count(PartOrder[3]))

\* SELECT DISTINCT part FROM maintenance.service_parts ORDER BY part
SelectDistinctParts(rows) ==
    LET present(p) == \E i \in DOMAIN rows : rows[i].part = p
    IN  SelectSeq(PartOrder, present)

\* the rows generate_stock_data may draw for a part of category BEAR or SEAL
\* (the same minimum_stock and reorder_point), current_stock and cost drawn
GeneratedRows(part_number) ==
    {r \in StockRows(part_number) : r.minimum_stock = 1 /\ r.reorder_point = 3}

\* generate_stock_data: one row per part that is not blank, in order
generate_stock_data(parts_list) ==
    LET NotBlank(part) == Strip(part) # <<>>
        named == SelectSeq(parts_list, NotBlank)
    IN  { sd \in [1..Len(named) ->
                     UNION {GeneratedRows(Strip(named[i])) : i \in 1..Len(named)}] :
            \A i \in 1..Len(named) : sd[i].part_number = Strip(named[i]) }

\* the table the tools query, from its rows: a SELECT ... WHERE part_number =
\* %s with fetchone() gives the first row of the part
TableOf(rows) ==
    [p \in StoredParts |->
        IF \E i \in 1..Len(rows) : rows[i].part_number = p
        THEN rows[CHOOSE i \in 1..Len(rows) :
                     /\ rows[i].part_number = p
                     /\ \A j \in 1..(i - 1) : rows[j].part_number # p]
        ELSE NoRecord]

\* the tables a run of the script leaves, and the table before any run
PopulatedTables ==
    {TableOf(sd) : sd \in generate_stock_data(<<BEAR_003_01, SEAL_003_02>>)}
    \cup {[p \in StoredParts |-> NoRecord]}

\* the rows of a table, in the order of the part numbers
TableRows(table) ==
    LET found(p) == p \in DOMAIN table /\ table[p].found
        held == SelectSeq(PartOrder, found)
    IN  [i \in 1..Len(held) |-> table[held[i]]]

\* what the other sessions read as it would be if the script's connection
\* were in autocommit mode
AfterStatement_Autocommit(committed, rows) == TableOf(rows)

\* what the other sessions read after a statement of the open transaction:
\* psycopg2 begins a transaction with the first statement, and under read
\* committed its changes are invisible until conn.commit()
AfterStatement(committed, rows) == committed

\* the except clause as it would be if it committed what was done so far
AfterRollback_Commits(committed, rows) == TableOf(rows)

\* the table after conn.rollback(): the changes of the transaction are gone
AfterRollback(committed, rows) == committed

\* psycopg2.connect(**db_params); conn.cursor()
PopulateConnect ==
    /\ ppc = "idle"
    /\ \E connected \in BOOLEAN :
          ppc' = IF connected THEN "connected" ELSE "failed"
    /\ UNCHANGED <<store, toolvars, mlvars, service_parts, parts, stock_data, uncommitted>>

\* the SELECT DISTINCT and generate_stock_data
FetchParts ==
    /\ ppc = "connected"
    /\ ppc' = "generated"
    /\ parts' = SelectDistinctParts(service_parts)
    /\ stock_data' \in generate_stock_data(parts')
    /\ uncommitted' = TableRows(store)
    /\ UNCHANGED <<store, toolvars, mlvars, service_parts>>

\* DELETE FROM procurement.parts_stock
DeleteAll ==
    /\ ppc = "generated"
    /\ ppc' = "deleted"
    /\ uncommitted' = <<>>
    /\ store' = AfterStatement(store, uncommitted')
    /\ UNCHANGED <<toolvars, mlvars, service_parts, parts, stock_data>>

\* execute_values(cursor, stock_query, stock_data)
InsertAll ==
    /\ ppc = "deleted"
    /\ ppc' = "inserted"
    /\ uncommitted' = uncommitted \o stock_data
    /\ store' = AfterStatement(store, uncommitted')
    /\ UNCHANGED <<toolvars, mlvars, service_parts, parts, stock_data>>

\* conn.commit()
Commit ==
    /\ ppc = "inserted"
    /\ ppc' = "committed"
    /\ store' = TableOf(uncommitted)
    /\ UNCHANGED <<toolvars, mlvars, service_parts, parts, stock_data, uncommitted>>

\* the verification queries succeed; the connection is closed
Verify ==
    /\ ppc = "committed"
    /\ ppc' = "done"
    /\ UNCHANGED <<store, toolvars, mlvars, service_parts, parts, stock_data, uncommitted>>

\* a statement raises: the except clause rolls back and closes
PopulateRaises ==
    /\ ppc \in {"connected", "generated", "deleted", "inserted", "committed"}
    /\ ppc' = "failed"
    /\ store' = IF ppc = "committed" THEN store
                ELSE AfterRollback(store, uncommitted)
    /\ UNCHANGED <<toolvars, mlvars, service_parts, parts, stock_data, uncommitted>>

InitPopulate ==
    /\ store \in PopulatedTables
    /\ pc = "idle"
    /\ tool = "none"
    /\ request_lines = <<>>
    /\ parts_text = <<>>
    /\ parts_needed = <<>>
    /\ queries = <<>>
    /\ stock_status = <<>>
    /\ parts_to_order = <<>>
    /\ total_cost = 0
    /\ conn = "none"
    /\ opened = 0
    /\ summary = NoSummary
    /\ error = "none"
    /\ result = NoResult
    /\ service_parts \in ServicePartsTables
    /\ ppc = "idle"
    /\ parts = <<>>
    /\ stock_data = <<>>
    /\ uncommitted = <<>>
    /\ NoWorkflow

NextPopulate ==
    \/ PopulateConnect
    \/ FetchParts
    \/ DeleteAll
    \/ InsertAll
    \/ Commit
    \/ Verify
    \/ PopulateRaises

SpecPopulate == InitPopulate /\ [][NextPopulate]_vars

\* the distinct parts of maintenance.service_parts that are not blank
NamedServiceParts ==
    {service_parts[i].part : i \in DOMAIN service_parts} \ {<<>>}

\* C21: once populate_procurement_table has committed, the table holds
\* exactly one record for each distinct part of maintenance.service_parts
\* that is not blank, and no two records have the same part_number, however
\* often service_parts lists a part.
C21_OneRecordPerPart ==
    ppc \in {"committed", "done"} =>
        /\ \A i, j \in 1..Len(uncommitted) :
              i # j => uncommitted[i].part_number # uncommitted[j].part_number
        /\ {uncommitted[i].part_number : i \in 1..Len(uncommitted)}
              = NamedServiceParts
        /\ \A p \in StoredParts : store[p].found <=> p \in NamedServiceParts
        /\ \A i \in 1..Len(uncommitted) :
              store[uncommitted[i].part_number] = uncommitted[i]

\* C21 witness: the script completed on a service_parts that lists one part
\* twice for one equipment and again for another, next to a blank part
C21_Witness ==
    /\ ppc = "done"
    /\ Len(service_parts) = 3
    /\ service_parts[1].part = service_parts[2].part
    /\ service_parts[1].part # <<>>
    /\ service_parts[1].equipment_id = service_parts[2].equipment_id
    /\ service_parts[3].equipment_id # service_parts[1].equipment_id
    /\ service_parts[3].part \in {service_parts[1].part, <<>>}
    /\ Len(uncommitted) = 1

\* C28: a run of populate_procurement_table that fails after its DELETE and
\* before its commit leaves the table as it was: no step of the run before
\* the commit, the failure and its rollback included, changes what the table
\* holds.
C28_FailedRunKeepsTable ==
    [][(ppc \in {"generated", "deleted", "inserted"} /\ ppc' # "committed")
          => store' = store]_vars

\* C28 witness: the run failed after inserting rows that differ from the
\* table, which holds its former rows
C28_Witness ==
    /\ ppc = "failed"
    /\ uncommitted = stock_data
    /\ uncommitted # <<>>
    /\ store # TableOf(uncommitted)
    /\ \E p \in StoredParts : store[p].found

\* C22: for every line of a completed order for a part in the table with
\* current_stock < reorder_point, the stock after receiving order_quantity
\* and using quantity_needed is at least reorder_point.
C22_StockAfterOrder ==
    OrderCompleted =>
        \A i \in 1..Len(parts_needed) :
            LET row == RowFor(i)
                q == parts_needed[i].quantity
            IN  (row.found /\ row.current_stock < row.reorder_point) =>
                  \A j \in 1..Len(result.rows) :
                      (/\ result.rows[j].part_number = parts_needed[i].part_number
                       /\ result.rows[j].quantity_needed = q)
                      => row.current_stock + result.rows[j].order_quantity - q
                            >= row.reorder_point

----------------------------------------------------------------------------
(* The tools while populate_procurement_table runs: each SELECT of a tool   *)
(* reads the table as committed at that moment                              *)

\* the parts lists handed to the tools while the script runs: one part asked
\* for twice, and two parts
ConcurrentTexts ==
    { << LineOf(<<>>, SEAL_003_02, ColonSep, <<"1">>, <<>>),
         LineOf(<<>>, SEAL_003_02, ColonSep, <<"1">>, <<>>) >>,
      << LineOf(<<>>, BEAR_003_01, ColonSep, <<"5">>, UnitsWord),
         LineOf(<<>>, SEAL_003_02, ColonSep, <<"1">>, <<>>) >> }

\* maintenance.service_parts while the tools run: both stored parts, or one
\* of them listed twice
ConcurrentServiceParts ==
    { ServiceRows(<<BEAR_003_01, SEAL_003_02>>),
      ServiceRows(<<SEAL_003_02, SEAL_003_02>>) }

\* a call of check_parts_stock or generate_procurement_order
ToolCall ==
    \E t \in {"check", "order"}, ls \in ConcurrentTexts : StartTool(t, ls)

\* the table was populated with both stored parts before
InitConcurrent ==
    /\ store \in PopulatedTables
    /\ \A p \in StoredParts : store[p].found
    /\ pc = "idle"
    /\ tool = "none"
    /\ request_lines = <<>>
    /\ parts_text = <<>>
    /\ parts_needed = <<>>
    /\ queries = <<>>
    /\ stock_status = <<>>
    /\ parts_to_order = <<>>
    /\ total_cost = 0
    /\ conn = "none"
    /\ opened = 0
    /\ summary = NoSummary
    /\ error = "none"
    /\ result = NoResult
    /\ service_parts \in ConcurrentServiceParts
    /\ ppc = "idle"
    /\ parts = <<>>
    /\ stock_data = <<>>
    /\ uncommitted = <<>>
    /\ NoWorkflow

NextConcurrent ==
    \/ ToolCall
    \/ ExecuteSelect
    \/ ExecuteRaises
    \/ Respond
    \/ PopulateConnect
    \/ FetchParts
    \/ DeleteAll
    \/ InsertAll
    \/ Commit
    \/ Verify
    \/ PopulateRaises

SpecConcurrent == InitConcurrent /\ [][NextConcurrent]_vars

\* C23: in one call of check_parts_stock or generate_procurement_order, two
\* requests for the same part and the same quantity get the same status and
\* the same order quantity, whatever populate_procurement_table commits in
\* between.
C23_SameRequestSameAnswer ==
    (pc = "returned" /\ error = "none" /\ parts_needed # <<>>) =>
        /\ tool = "check" =>
              \A i, j \in 1..Len(parts_needed) :
                  parts_needed[i] = parts_needed[j]
                  => result.rows[i].status = result.rows[j].status
        /\ tool = "order" =>
              /\ \A i, j \in 1..Len(result.rows) :
                    (/\ result.rows[i].part_number = result.rows[j].part_number
                     /\ result.rows[i].quantity_needed
                           = result.rows[j].quantity_needed)
                    => result.rows[i].order_quantity = result.rows[j].order_quantity
              /\ \A i, j \in 1..Len(parts_needed) :
                    (i # j /\ parts_needed[i] = parts_needed[j])
                    => Len(result.rows) \in {0, Len(parts_needed)}

\* C24: the table held every stored part before the script ran; a part that
\* service_parts names holds a record after it too. No query of a tool
\* finds such a part missing, whenever it runs: no assessment of it is NOT
\* FOUND and no order line of it is the line of a part not in the table.
C24_NeverSeenEmptied ==
    /\ \A i \in 1..Len(stock_status) :
          stock_status[i].part_number \in NamedServiceParts
          => stock_status[i].status # "NOT FOUND"
    /\ \A j \in 1..Len(parts_to_order) :
          parts_to_order[j].part_number \in NamedServiceParts
          => parts_to_order[j].supplier # "Unknown"

\* C24 witness: the script has deleted and inserted without committing, and
\* check_parts_stock has assessed one part and is about to query the next
C24_Witness ==
    /\ ppc = "inserted"
    /\ store # TableOf(uncommitted)
    /\ pc = "loop" /\ tool = "check"
    /\ Len(stock_status) = 1
    /\ stock_status[1].status \in {"IN STOCK", "OUT OF STOCK"}

----------------------------------------------------------------------------
(* Letter case of part numbers *)

\* a part number that differs from a stored part_number in letter case only
CaseVariantOfStored(part_number) ==
    \E p \in DOMAIN store :
        /\ store[p].found
        /\ part_number # p
        /\ UpperCase(part_number) = UpperCase(p)

\* C25: the parser accepts a part code in any letter case and returns it as
\* written, and the lookup compares part_number exactly: a request that
\* differs from a stored part_number in letter case only is assessed
\* NOT FOUND, and ordered with quantity_needed + 2 from supplier Unknown,
\* instead of being matched to the stored record.
C25_CaseSensitiveLookup ==
    /\ (pc = "returned" /\ tool \in {"check", "order"} /\ error = "none") =>
           /\ Len(parts_needed) = Len(RequestedLines)
           /\ \A i \in 1..Len(parts_needed) :
                  parts_needed[i].part_number = RequestedLines[i].part
    /\ CheckReported =>
           \A i \in 1..Len(parts_needed) :
               CaseVariantOfStored(parts_needed[i].part_number) =>
                   /\ result.rows[i].part_number = parts_needed[i].part_number
                   /\ result.rows[i].status = "NOT FOUND"
                   /\ result.rows[i].needs_order
                   /\ result.rows[i].supplier = "Unknown"
    /\ OrderCompleted =>
           \A i \in 1..Len(parts_needed) :
               CaseVariantOfStored(parts_needed[i].part_number) =>
                   \E j \in 1..Len(result.rows) :
                       /\ result.rows[j].part_number = parts_needed[i].part_number
                       /\ result.rows[j].quantity_needed = parts_needed[i].quantity
                       /\ result.rows[j].order_quantity =
                              parts_needed[i].quantity + 2
                       /\ result.rows[j].supplier = "Unknown"

\* BEAR-003-01 is stored; 'BEAR-003-01' and 'bear-003-01' are both requested:
\* the first is found, the second is not
C25_Witness ==
    /\ CheckReported
    /\ store[BEAR_003_01].found
    /\ \E i, k \in 1..Len(parts_needed) :
          /\ parts_needed[i].part_number = bear_003_01
          /\ result.rows[i].status = "NOT FOUND"
          /\ parts_needed[k].part_number = BEAR_003_01
          /\ result.rows[k].status # "NOT FOUND"

----------------------------------------------------------------------------
(* generate_manuals.py: the parts files behind maintenance.service_parts *)

\* the equipment ids whose parts files are written (the script writes 1..100)
MaxEquipment == 10

\* a string literal as the sequence of its characters
Chars(str) == [i \in 1..Len(str) |-> SubSeq(str, i, i)]

PART_CATEGORIES ==
    << <<"BEAR", "SEAL", "OIL-FILTER", "GREASE">>,
       <<"MOTOR", "BELT", "PULLEY", "COUPLING">>,
       <<"PUMP", "IMPELLER", "SHAFT", "BEARING">>,
       <<"DRIVE", "GEAR", "CHAIN", "SPROCKET">>,
       <<"HEAT", "TUBE", "FIN", "GASKET">>,
       <<"VALVE", "ACTUATOR", "POSITIONER", "SEAT">>,
       <<"GEAR", "PINION", "RACK", "LUBRICANT">>,
       <<"PANEL", "SWITCH", "RELAY", "FUSE">>,
       <<"FILTER", "ELEMENT", "HOUSING", "GASKET">>,
       <<"TOWER", "FAN", "DRIFT", "NOZZLE">> >>

RECURSIVE Format(_, _)
\* f"{n:0{width}d}": decimal, padded with zeros to at least width digits
Format(n, width) ==
    IF n < 10 /\ width <= 1 THEN <<DecimalDigits[n + 1]>>
    ELSE Append(Format(n \div 10, width - 1), DecimalDigits[(n % 10) + 1])

\* sub in s
Contains(sub, s) ==
    \E k \in 1..(Len(s) - Len(sub) + 1) : SubSeq(s, k, k + Len(sub) - 1) = sub

\* the quantity generate_parts_list writes for a part of a category
PartQuantity(category, unique_id) ==
    IF Contains("BEAR", category) THEN 2 + (unique_id % 3)
    ELSE IF Contains("SEAL", category) THEN 1 + (unique_id % 2)
    ELSE IF Contains("FILTER", category) THEN 1
    ELSE IF Contains("GREASE", category) THEN 2 + (unique_id % 4)
    ELSE IF Contains("OIL", category) THEN 1 + (unique_id % 3)
    ELSE IF Contains("GASKET", category) THEN 1 + (unique_id % 2)
    ELSE 1 + (unique_id % 3)

\* f"{category}-{unique_id:03d}-{n:02d}"
PartNumber(category, unique_id, n) ==
    Chars(category) \o <<"-">> \o Format(unique_id, 3) \o <<"-">> \o Format(n, 2)

\* the lines 'part,quantity' of {unique_id}_parts.txt, as (part, quantity)
generate_parts_list(unique_id) ==
    LET part_category == PART_CATEGORIES[((unique_id - 1) % 10) + 1]
        specific == [i \in 1..Len(part_category) |->
                        [part |-> PartNumber(part_category[i], unique_id, i),
                         quantity |-> PartQuantity(part_category[i], unique_id)]]
        common_parts ==
            << [part |-> PartNumber("GREASE", unique_id, 1),
                quantity |-> 2 + (unique_id % 4)],
               [part |-> PartNumber("OIL", unique_id, 1),
                quantity |-> 1 + (unique_id % 3)],
               [part |-> PartNumber("FILTER", unique_id, 1), quantity |-> 1],
               [part |-> PartNumber("GASKET", unique_id, 1),
                quantity |-> 1 + (unique_id % 2)] >>
    IN  specific \o common_parts

\* ingest_data.py: one service_parts row (unique_id, part, quantity) per line
read_parts_list(unique_id) ==
    LET lines == generate_parts_list(unique_id)
    IN  [i \in 1..Len(lines) |->
            [equipment_id |-> unique_id, part |-> lines[i].part,
             quantity |-> lines[i].quantity]]

\* the parts file of one equipment is written and ingested
WriteParts ==
    /\ ppc = "idle"
    /\ \E unique_id \in 1..MaxEquipment :
          service_parts' = read_parts_list(unique_id)
    /\ ppc' = "ingested"
    /\ UNCHANGED <<store, parts, stock_data, uncommitted, toolvars, mlvars>>

\* a request 'PART: N' is written for one of the ingested parts
RequestPart ==
    /\ ppc = "ingested" /\ pc = "idle" /\ request_lines = <<>>
    /\ \E k \in 1..Len(service_parts), N \in 0..MaxStock :
          /\ request_lines' =
                 <<LineOf(<<>>, service_parts[k].part, ColonSep, Format(N, 1), <<>>)>>
          /\ parts_text' = RenderText(request_lines')
    /\ UNCHANGED <<store, pc, tool, parts_needed, queries, stock_status,
                   parts_to_order, total_cost, conn, opened, summary, error,
                   result, popvars, mlvars>>

InitManuals ==
    /\ store = [p \in StoredParts |-> NoRecord]
    /\ pc = "idle"
    /\ tool = "none"
    /\ request_lines = <<>>
    /\ parts_text = RenderText(request_lines)
    /\ parts_needed = <<>>
    /\ queries = <<>>
    /\ stock_status = <<>>
    /\ parts_to_order = <<>>
    /\ total_cost = 0
    /\ conn = "none"
    /\ opened = 0
    /\ summary = NoSummary
    /\ error = "none"
    /\ result = NoResult
    /\ service_parts = <<>>
    /\ ppc = "idle"
    /\ parts = <<>>
    /\ stock_data = <<>>
    /\ uncommitted = <<>>
    /\ NoWorkflow

NextManuals == WriteParts \/ RequestPart \/ Parse

SpecManuals == InitManuals /\ [][NextManuals]_vars

\* C26: every part number generate_parts_list writes has the form
\* LETTERS-DDD-DD, and the line 'PART: N' built from an ingested part is
\* parsed by parse_parts_list into the one pair (PART, N).
C26_GeneratedPartsParse ==
    /\ \A k \in 1..Len(service_parts) : IsPartCode(service_parts[k].part)
    /\ (pc = "parsed" /\ request_lines # <<>>) =>
           parts_needed = <<PairOf(request_lines[1])>>

----------------------------------------------------------------------------
(* get_stock_summary over tables with parts above their reorder point *)

\* current_stock of a row of the summarised tables
MaxSummaryStock == 4

SummaryRows(p) ==
    { [found |-> TRUE, part_number |-> p,
       part_description |-> f.part_description, current_stock |-> c,
       minimum_stock |-> f.minimum_stock, reorder_point |-> f.reorder_point,
       unit_cost |-> f.unit_cost, supplier |-> f.supplier] :
      f \in StockProfiles, c \in 0..MaxSummaryStock }

SummaryTables ==
    { t \in [StoredParts ->
                UNION {SummaryRows(p) : p \in StoredParts} \cup {NoRecord}] :
        \A p \in StoredParts : t[p].found => t[p].part_number = p }

InitSummary ==
    /\ store \in SummaryTables
    /\ pc = "idle"
    /\ tool = "none"
    /\ request_lines = <<>>
    /\ parts_text = <<>>
    /\ parts_needed = <<>>
    /\ queries = <<>>
    /\ stock_status = <<>>
    /\ parts_to_order = <<>>
    /\ total_cost = 0
    /\ conn = "none"
    /\ opened = 0
    /\ summary = NoSummary
    /\ error = "none"
    /\ result = NoResult
    /\ service_parts = <<>>
    /\ ppc = "idle"
    /\ parts = <<>>
    /\ stock_data = <<>>
    /\ uncommitted = <<>>
    /\ NoWorkflow

NextSummary ==
    \/ get_stock_summary
    \/ SelectAggregate
    \/ SelectLowStock
    \/ SummaryRaises
    \/ Respond

SpecSummary == InitSummary /\ [][NextSummary]_vars

\* get_stock_summary returned its summary
SummaryReturned == pc = "returned" /\ tool = "summary" /\ result.kind = "summary"

----------------------------------------------------------------------------
(* The training workflow: preprocessing (input_data), then feature creation *)
(* (feat_creation). A frame is a sequence of rows; a sensor value is a      *)
(* number of hundredths.                                                    *)

\* the longest training series of one unit
MaxSeries == 2

\* the values of unique_id
Units == {1, 2}

\* s_21 readings: 1.00 and 3.00
SensorValues == {100, 300}

SeriesOf(lo, hi) == UNION {[1..k -> SensorValues] : k \in lo..hi}

\* the rows of one unit, ds counting from 1
RowsOfUnit(u, xs) ==
    [i \in 1..Len(xs) |-> [unique_id |-> u, ds |-> i, s_21 |-> xs[i]]]

\* a frame with the series of unit 1, then of unit 2
FrameOf(series) == RowsOfUnit(1, series[1]) \o RowsOfUnit(2, series[2])

RECURSIVE SumSeq(_)
SumSeq(xs) == IF xs = <<>> THEN 0 ELSE Head(xs) + SumSeq(Tail(xs))

\* the column s_21 of a frame
Column(frame) == [i \in 1..Len(frame) |-> frame[i].s_21]

\* Y_train_df.groupby('unique_id')["ds"].max()
max_ds(train, u) ==
    LET ds == {train[i].ds : i \in {k \in 1..Len(train) : train[k].unique_id = u}}
    IN  CHOOSE m \in ds : \A d \in ds : d <= m

\* the test frame with ds moved behind the training series of its unit
ShiftTest(train, test) ==
    [i \in 1..Len(test) |->
        [test[i] EXCEPT !.ds = @ + max_ds(train, test[i].unique_id)]]

\* the integer square root
Isqrt(n) == CHOOSE r \in 0..n : r * r <= n /\ n < (r + 1) * (r + 1)

\* StandardScaler.fit: the mean and the population standard deviation of
\* the column; a zero deviation is replaced by 1
Fit(frame) ==
    LET xs == Column(frame)
        mean == SumSeq(xs) \div Len(xs)
        var == SumSeq([i \in 1..Len(xs) |-> (xs[i] - mean) * (xs[i] - mean)])
                   \div Len(xs)
    IN  [mean |-> mean, scale |-> IF Isqrt(var) = 0 THEN 100 ELSE Isqrt(var)]

\* StandardScaler.transform: (x - mean) / scale
Transform(scaler, frame) ==
    [i \in 1..Len(frame) |->
        [frame[i] EXCEPT !.s_21 = ((@ - scaler.mean) * 100) \div scaler.scale]]

\* both frames scaled with the statistics of the training frame
normalize_sensor_columns_globally(train_data, test_data) ==
    LET scaler == Fit(train_data)
    IN  [train_normalized |-> Transform(scaler, train_data),
         test_normalized |-> Transform(scaler, test_data)]

\* the preprocessing step: shift, normalise, log the three datasets
input_data ==
    /\ wpc = "start"
    /\ LET shifted == ShiftTest(Y_train_df, Y_test_df)
           normalized == normalize_sensor_columns_globally(Y_train_df, shifted)
           Y_full == Y_train_df \o shifted
       IN  artifacts' = [Y_train_normalized |-> normalized.train_normalized,
                         Y_test_normalized |-> normalized.test_normalized,
                         full_data_normalized |-> Y_full,
                         Y_full_data_features |-> <<>>]
    /\ wpc' = "preprocessed"
    /\ UNCHANGED <<store, toolvars, popvars, Y_train_df, Y_test_df, data,
                   data_with_smoothed, unique_groups, printed>>

\* feat_creation's defaults
window_length == 15
polyorder == 3

\* a missing value, and a value that is present
NaN == [nan |-> TRUE, value |-> 0]
Float(v) == [nan |-> FALSE, value |-> v]

Min(a, b) == IF a <= b THEN a ELSE b

RECURSIVE Unique(_)
\* Series.unique(): the values in the order of their first appearance
Unique(xs) ==
    IF xs = <<>> THEN <<>>
    ELSE LET front == Unique(SubSeq(xs, 1, Len(xs) - 1))
             last == xs[Len(xs)]
         IN  IF \E i \in 1..Len(front) : front[i] = last THEN front
             ELSE Append(front, last)

\* the positions of the rows group_mask selects, in order
Positions(frame, group) ==
    SelectSeq([i \in 1..Len(frame) |-> i],
              LAMBDA i : frame[i].unique_id = group)

\* group_data[column_name].values
GroupValues(frame, group) ==
    LET pos == Positions(frame, group)
    IN  [k \in 1..Len(pos) |-> frame[pos[k]].s_21]

\* savgol_filter(x, window, order) in the case window = len(x) and
\* order = window - 1, the case of every group of fewer than five rows: the
\* fitted polynomial passes through all the points, the output is x
savgol_filter(x, window, order) ==
    IF window = Len(x) /\ order = window - 1 THEN x ELSE <<>>

\* Series.rolling(window, center=True, min_periods=1).mean()
RollingMean(x, window) ==
    LET offset == (window - 1) \div 2
    IN  [i \in 1..Len(x) |->
            LET in_window == {k \in 1..Len(x) :
                                 i + offset - window + 1 <= k /\ k <= i + offset}
                lo == CHOOSE k \in in_window : \A j \in in_window : k <= j
            IN  SumSeq(SubSeq(x, lo, lo + Cardinality(in_window) - 1))
                    \div Cardinality(in_window)]

\* data_with_smoothed.loc[group_mask, 's_21_smoothed'] = smoothed_values
Assign(frame, positions, smoothed_values) ==
    [i \in 1..Len(frame) |->
        IF \E k \in 1..Len(positions) : positions[k] = i
        THEN LET k == CHOOSE j \in 1..Len(positions) : positions[j] = i
             IN  [frame[i] EXCEPT !.s_21_smoothed = Float(smoothed_values[k])]
        ELSE frame[i]]

\* the handler as it would be with the moving average taken over the whole
\* column and written to every row
Fallback_WholeColumn(frame, input, group) ==
    Assign(frame, [i \in 1..Len(input) |-> i],
           RollingMean(Column(input), Min(window_length, Len(input))))

\* the except branch: the moving average of the group, written to its rows
Fallback(frame, input, group) ==
    LET x == GroupValues(input, group)
    IN  Assign(frame, Positions(input, group),
               RollingMean(x, Min(window_length, Len(x))))

\* entry of feat_creation and of create_smoothed_feature_by_group: the frame
\* is copied and the new column is filled with NaN
feat_creation ==
    /\ wpc = "preprocessed"
    /\ data' = artifacts.full_data_normalized
    /\ data_with_smoothed' =
           [i \in 1..Len(data') |->
               [unique_id |-> data'[i].unique_id, ds |-> data'[i].ds,
                s_21 |-> data'[i].s_21, s_21_smoothed |-> NaN]]
    /\ unique_groups' = Unique([i \in 1..Len(data') |-> data'[i].unique_id])
    /\ printed' = <<>>
    /\ wpc' = "smoothing"
    /\ UNCHANGED <<store, toolvars, popvars, Y_train_df, Y_test_df, artifacts>>

\* one pass of the loop: the filter, or the moving average when it raises
SmoothGroup ==
    /\ wpc = "smoothing"
    /\ unique_groups # <<>>
    /\ LET group == Head(unique_groups)
           x == GroupValues(data, group)
       IN  IF x = <<>>
           THEN UNCHANGED <<data_with_smoothed, printed>>
           ELSE \E raises \in BOOLEAN :
                  IF raises
                  THEN /\ printed' = Append(printed, group)
                       /\ data_with_smoothed' =
                              Fallback(data_with_smoothed, data, group)
                  ELSE /\ printed' = printed
                       /\ data_with_smoothed' =
                              Assign(data_with_smoothed, Positions(data, group),
                                     savgol_filter(x, Min(window_length, Len(x)),
                                                   Min(polyorder, Len(x) - 1)))
    /\ unique_groups' = Tail(unique_groups)
    /\ UNCHANGED <<store, toolvars, popvars, wpc, Y_train_df, Y_test_df,
                   artifacts, data>>

\* the loop is over: the frame with the new column is logged
LogFeatures ==
    /\ wpc = "smoothing"
    /\ unique_groups = <<>>
    /\ artifacts' = [artifacts EXCEPT !.Y_full_data_features = data_with_smoothed]
    /\ wpc' = "featured"
    /\ UNCHANGED <<store, toolvars, popvars, Y_train_df, Y_test_df, data,
                   data_with_smoothed, unique_groups, printed>>

InitWorkflow ==
    /\ store = [p \in StoredParts |-> NoRecord]
    /\ pc = "idle"
    /\ tool = "none"
    /\ request_lines = <<>>
    /\ parts_text = <<>>
    /\ parts_needed = <<>>
    /\ queries = <<>>
    /\ stock_status = <<>>
    /\ parts_to_order = <<>>
    /\ total_cost = 0
    /\ conn = "none"
    /\ opened = 0
    /\ summary = NoSummary
    /\ error = "none"
    /\ result = NoResult
    /\ service_parts = <<>>
    /\ ppc = "idle"
    /\ parts = <<>>
    /\ stock_data = <<>>
    /\ uncommitted = <<>>
    /\ wpc = "start"
    /\ Y_train_df \in {FrameOf(series) : series \in [Units -> SeriesOf(1, MaxSeries)]}
    /\ Y_test_df \in {FrameOf(series) : series \in [Units -> SeriesOf(0, 1)]}
    /\ artifacts = <<>>
    /\ data = <<>>
    /\ data_with_smoothed = <<>>
    /\ unique_groups = <<>>
    /\ printed = <<>>

NextWorkflow ==
    \/ input_data
    \/ feat_creation
    \/ SmoothGroup
    \/ LogFeatures

SpecWorkflow == InitWorkflow /\ [][NextWorkflow]_vars

\* C29: the dataset logged as full_data_normalized, which feature creation
\* reads, is the normalized training frame followed by the normalized,
\* time-shifted test frame.
C29_FullDataIsNormalized ==
    /\ wpc \in {"preprocessed", "smoothing", "featured"} =>
           artifacts.full_data_normalized =
               artifacts.Y_train_normalized \o artifacts.Y_test_normalized
    /\ wpc \in {"smoothing", "featured"} =>
           data = artifacts.Y_train_normalized \o artifacts.Y_test_normalized

\* the column s_21_smoothed of the rows of a group
GroupSmoothed(frame, group) ==
    LET pos == Positions(frame, group)
    IN  [k \in 1..Len(pos) |-> frame[pos[k]].s_21_smoothed]

\* C30: in every pass of the loop of create_smoothed_feature_by_group,
\* whether or not the filter raises for the group: the loop goes on with the
\* remaining groups (no exception leaves the function), the input frame is
\* not modified, the rows of the other groups keep what they had, and each
\* row of the group receives a value: the moving average of the group when
\* the failure was printed, the filtered values otherwise. When the loop is
\* over no row is left without a smoothed value.
C30_FallbackPerGroup ==
    [][ /\ (wpc = "smoothing" /\ unique_groups # <<>>) =>
             LET group == Head(unique_groups)
                 x == GroupValues(data, group)
                 others == {i \in 1..Len(data) : data[i].unique_id # group}
                 smoothed == GroupSmoothed(data_with_smoothed', group)
             IN  /\ wpc' = "smoothing"
                 /\ unique_groups' = Tail(unique_groups)
                 /\ data' = data
                 /\ data = artifacts.full_data_normalized
                 /\ Len(data_with_smoothed') = Len(data)
                 /\ \A i \in others :
                        data_with_smoothed'[i] = data_with_smoothed[i]
                 /\ \A k \in 1..Len(smoothed) : ~smoothed[k].nan
                 /\ Len(smoothed) = Len(x)
                 /\ IF printed' # printed
                    THEN /\ printed' = Append(printed, group)
                         /\ \A k \in 1..Len(x) :
                                smoothed[k].value =
                                    RollingMean(x, Min(window_length, Len(x)))[k]
                    ELSE \A k \in 1..Len(x) :
                             smoothed[k].value =
                                 savgol_filter(x, Min(window_length, Len(x)),
                                               Min(polyorder, Len(x) - 1))[k]
        /\ (wpc = "smoothing" /\ wpc' = "featured") =>
             /\ \A i \in 1..Len(data_with_smoothed) :
                    /\ ~data_with_smoothed[i].s_21_smoothed.nan
                    /\ data_with_smoothed[i].s_21 = data[i].s_21
             /\ artifacts'.Y_full_data_features = data_with_smoothed
      ]_vars

\* the filter failed for one of two groups: its rows carry the moving
\* average, which differs from the reading, the rows of the other group the
\* filtered values
C30_Witness ==
    /\ wpc = "featured"
    /\ Len(printed) = 1
    /\ \E i, j \in 1..Len(data_with_smoothed) :
          /\ data_with_smoothed[i].unique_id = printed[1]
          /\ data_with_smoothed[i].s_21_smoothed.value # data_with_smoothed[i].s_21
          /\ data_with_smoothed[j].unique_id # printed[1]
          /\ ~data_with_smoothed[j].s_21_smoothed.nan

====
